---------------------------- MODULE Spec2Model ----------------------------
(***************************************************************************)
(* Contact-form page script (src/script.js).  The file holds two variants  *)
(* of the same script: the baseline variant (lines 1-359) and the          *)
(* accessibility-enhanced variant (lines 360-837).  Both are run here on   *)
(* the same document and the same stream of user events, each on its own   *)
(* copy of the DOM state (base, acc), so that the two can be compared      *)
(* after every event.                                                      *)
(*                                                                         *)
(* Strings are sequences of one-character strings, so that trim, the       *)
(* e-mail pattern, the phone clean-up and the country patterns are         *)
(* computed character by character as the code's regular expressions do.   *)
(***************************************************************************)
EXTENDS Integers, Sequences, FiniteSets, TLC

VARIABLES
    absent,          \* ids for which document.getElementById returns null
    defaultContact,  \* the contact radio carrying the HTML checked attribute
    base,            \* DOM state driven by the baseline variant
    acc,             \* DOM state driven by the accessible variant
    threw,           \* did the last event's handler raise, per variant
    announcer,       \* textContent of #status-announcer (accessible variant)
    announceTimers,  \* pending 1000 ms announcer timers, oldest first
    scrollTimers,    \* ids of the pending 100 ms scroll timers, oldest first
    scrollTimeout,   \* the timer id held in scrollTimeout (0: undefined)
    scrollY,         \* window.scrollY
    navBase,         \* nav links' state, baseline variant
    navAcc,          \* nav links' state, accessible variant
    scrolled,        \* has a scroll event been dispatched yet
    updatesSinceScroll, \* accessible highlight updates since the last scroll event
    events           \* user events dispatched since the page was loaded

vars == <<absent, defaultContact, base, acc, threw, announcer, announceTimers,
          scrollTimers, scrollTimeout, scrollY, navBase, navAcc, scrolled,
          updatesSinceScroll, events>>

formVars == <<absent, defaultContact, base, acc, threw>>
announceVars == <<announcer, announceTimers>>
scrollVars == <<scrollTimers, scrollTimeout, scrollY, navBase, navAcc, scrolled,
               updatesSinceScroll>>

-----------------------------------------------------------------------------
(* Characters and strings *)

IsSpace(c) == c = " "
IsDigit(c) == c \in {"1", "2", "3"}

\* String.prototype.trim
RECURSIVE TrimLeft(_)
TrimLeft(s) ==
    IF s = <<>> THEN s
    ELSE IF IsSpace(Head(s)) THEN TrimLeft(Tail(s)) ELSE s

RECURSIVE TrimRight(_)
TrimRight(s) ==
    IF s = <<>> THEN s
    ELSE IF IsSpace(s[Len(s)]) THEN TrimRight(SubSeq(s, 1, Len(s) - 1)) ELSE s

Trim(s) == TrimRight(TrimLeft(s))

\* one or more characters, none of them whitespace or "@": [^\s@]+
EmailPart(s) ==
    /\ s # <<>>
    /\ \A i \in 1..Len(s) : ~IsSpace(s[i]) /\ s[i] # "@"

\* Faulty variant, kept for comparison: the pattern without its "\.[^\s@]+" part
isValidEmailNoTld(email) ==
    \E i \in 1..Len(email) :
        /\ email[i] = "@"
        /\ EmailPart(SubSeq(email, 1, i - 1))
        /\ EmailPart(SubSeq(email, i + 1, Len(email)))

\* isValidEmail: /^[^\s@]+@[^\s@]+\.[^\s@]+$/.test(email)
isValidEmail(email) ==
    \E i \in 1..Len(email) : \E j \in 1..Len(email) :
        /\ i < j
        /\ email[i] = "@"
        /\ email[j] = "."
        /\ EmailPart(SubSeq(email, 1, i - 1))
        /\ EmailPart(SubSeq(email, i + 1, j - 1))
        /\ EmailPart(SubSeq(email, j + 1, Len(email)))

\* Faulty variant, kept for comparison: only whitespace is removed
cleanNumberSpacesOnly(phoneNumber) ==
    LET NotSpace(c) == ~IsSpace(c) IN SelectSeq(phoneNumber, NotSpace)

\* phoneNumber.replace(/[\s\-\(\)\.]/g, '')
IsSeparator(c) == c \in {" ", "-", "(", ")", "."}
KeepDigit(c) == ~IsSeparator(c)
cleanNumber(phoneNumber) == SelectSeq(phoneNumber, KeepDigit)

\* Faulty variant, kept for comparison: the filter of validatePhoneNumber,
\* which removes separators only, used in the listeners
cleanedKeepsOthers(text) == SelectSeq(text, KeepDigit)

\* value.replace(/[^\d\s]/g, '')
DigitOrSpace(c) == IsDigit(c) \/ IsSpace(c)
cleaned(text) == SelectSeq(text, DigitOrSpace)

-----------------------------------------------------------------------------
(* The document.  The HTML is not part of the script; the script reads it   *)
(* through getElementById, the options' data-pattern / data-placeholder     *)
(* attributes and the form's default values.                                *)

TextFields == <<"firstName", "lastName", "email", "messageSubject", "message">>
TextFieldSet == {TextFields[i] : i \in 1..Len(TextFields)}
Fields == TextFieldSet \cup {"phone"}

\* fieldName + 'Error'
ErrorId(f) ==
    CASE f = "firstName" -> "firstNameError"
      [] f = "lastName" -> "lastNameError"
      [] f = "email" -> "emailError"
      [] f = "messageSubject" -> "messageSubjectError"
      [] f = "message" -> "messageError"
      [] f = "phone" -> "phoneError"

Present(id) == id \notin absent

\* The country <select>: each option's data-pattern is modelled as the regular
\* expression ^\d{lo,hi}$ (has = FALSE: the attribute is missing), and its
\* data-placeholder as a string ("" : the attribute is missing).
Options ==
    << [name |-> "CH", pattern |-> [has |-> TRUE, lo |-> 2, hi |-> 2], placeholder |-> "12"],
       [name |-> "US", pattern |-> [has |-> TRUE, lo |-> 3, hi |-> 3], placeholder |-> "123"],
       [name |-> "XX", pattern |-> [has |-> FALSE, lo |-> 0, hi |-> 0], placeholder |-> ""] >>

\* new RegExp(pattern).test(s) for a pattern ^\d{lo,hi}$
RegExpTest(pattern, s) ==
    /\ \A i \in 1..Len(s) : IsDigit(s[i])
    /\ pattern.lo <= Len(s)
    /\ Len(s) <= pattern.hi

\* validatePhoneNumber(phoneNumber, countryCodeSelect); the caller has made sure
\* that the select exists and has a selected option.
validatePhoneNumber(phoneNumber, selectedIndex) ==
    LET pattern == Options[selectedIndex].pattern
    IN  IF ~pattern.has THEN FALSE
        ELSE RegExpTest(pattern, cleanNumber(phoneNumber))

-----------------------------------------------------------------------------
(* DOM state of one variant.  Field "phone" is elements.phoneInput.         *)

InitDom(dc) ==
    [ value         |-> [f \in Fields |-> <<>>],
      cls           |-> [f \in Fields |-> {}],
      dblock        |-> [f \in Fields |-> FALSE],
      errText       |-> [f \in Fields |-> ""],
      checked       |-> dc,
      selectedIndex |-> 1,
      required      |-> (dc = "phone"),
      groupDisplay  |-> IF dc = "phone" THEN "block" ELSE "none",
      placeholder   |-> Options[1].placeholder,
      overlay       |-> "none",
      modal         |-> "none" ]

\* Faulty variant, kept for comparison: the failure branch does not remove is-valid
validateFieldKeepsValid(d, f, isValid, errorMessage) ==
    IF ~Present(f) \/ ~Present(ErrorId(f)) THEN d
    ELSE IF ~isValid
         THEN [d EXCEPT !.cls[f] = @ \cup {"is-invalid"},
                        !.errText[f] = IF errorMessage # "" THEN errorMessage ELSE @,
                        !.dblock[f] = TRUE]
         ELSE [d EXCEPT !.cls[f] = (@ \ {"is-invalid"}) \cup {"is-valid"},
                        !.dblock[f] = FALSE]

\* Faulty variant, kept for comparison: the success branch leaves d-block on
\* the error element
validateFieldKeepsBlock(d, f, isValid, errorMessage) ==
    IF ~Present(f) \/ ~Present(ErrorId(f)) THEN d
    ELSE IF ~isValid
         THEN [d EXCEPT !.cls[f] = (@ \cup {"is-invalid"}) \ {"is-valid"},
                        !.errText[f] = IF errorMessage # "" THEN errorMessage ELSE @,
                        !.dblock[f] = TRUE]
         ELSE [d EXCEPT !.cls[f] = (@ \ {"is-invalid"}) \cup {"is-valid"}]

\* validateField(field, errorElement, validationFn, errorMessage): the DOM after
\* the call.  isValid is validationFn(field.value); it is only looked at when
\* both elements exist.  (The accessible variant also sets aria-invalid, an
\* attribute no handler reads; it is not part of the state.)
validateField(d, f, isValid, errorMessage) ==
    IF ~Present(f) \/ ~Present(ErrorId(f)) THEN d
    ELSE IF ~isValid
         THEN [d EXCEPT !.cls[f] = (@ \cup {"is-invalid"}) \ {"is-valid"},
                        !.errText[f] = IF errorMessage # "" THEN errorMessage ELSE @,
                        !.dblock[f] = TRUE]
         ELSE [d EXCEPT !.cls[f] = (@ \ {"is-invalid"}) \cup {"is-valid"},
                        !.dblock[f] = FALSE]

\* the value validateField returns
validateFieldResult(f, isValid) ==
    IF ~Present(f) \/ ~Present(ErrorId(f)) THEN TRUE ELSE isValid

\* Faulty variant, kept for comparison: the accessible variant empties the error text but leaves d-block
clearValidationKeepsBlock(d, a, f) ==
    LET d1 == IF Present(f) THEN [d EXCEPT !.cls[f] = @ \ {"is-invalid", "is-valid"}] ELSE d
    IN  IF Present(ErrorId(f))
        THEN [d1 EXCEPT !.dblock[f] = IF a THEN @ ELSE FALSE,
                        !.errText[f] = IF a THEN "" ELSE @]
        ELSE d1

\* clearValidation(field, errorElement); the accessible variant also empties
\* the error element's text.
clearValidation(d, a, f) ==
    LET d1 == IF Present(f) THEN [d EXCEPT !.cls[f] = @ \ {"is-invalid", "is-valid"}] ELSE d
    IN  IF Present(ErrorId(f))
        THEN [d1 EXCEPT !.dblock[f] = FALSE,
                        !.errText[f] = IF a THEN "" ELSE @]
        ELSE d1

\* Faulty variant, kept for comparison: the validators compare the raw value, without trim()
validatorNoTrim(f, value) ==
    IF f = "email" THEN value # <<>> /\ isValidEmail(value)
    ELSE value # <<>>

\* fieldValidators[fieldName].validator
validator(f, value) ==
    IF f = "email" THEN Trim(value) # <<>> /\ isValidEmail(value)
    ELSE Trim(value) # <<>>

\* fieldValidators[fieldName].errorMessage
errorMessage(f) ==
    CASE f = "firstName" -> "Please provide your first name."
      [] f = "lastName" -> "Please provide your last name."
      [] f = "email" -> "Please provide a valid email address."
      [] f = "messageSubject" -> "Please provide a subject."
      [] f = "message" -> "Please write your message."

\* fieldValidators.email.emptyMessage
emptyMessage == "Please provide your email address."

PhoneEmptyMessage == "Please provide your phone number."
PhoneInvalidMessage == "Please provide a valid phone number for the selected country."

\* One text field's validation as the blur and submit listeners do it: the
\* empty e-mail gets its own message.
validateTextField(d, f) ==
    IF f = "email" /\ Trim(d.value[f]) = <<>>
    THEN validateField(d, f, FALSE, emptyMessage)
    ELSE validateField(d, f, validator(f, d.value[f]), errorMessage(f))

validateTextFieldResult(d, f) ==
    IF f = "email" /\ Trim(d.value[f]) = <<>>
    THEN validateFieldResult(f, FALSE)
    ELSE validateFieldResult(f, validator(f, d.value[f]))

\* countryCodeSelect.options[selectedIndex].getAttribute(...) raises a TypeError
\* when the select is missing.
CountryLookupThrows == ~Present("countryCode")

\* The phone field's validation, shared by its blur listener and by submit.
\* [dom, ok, threw]: validationFn runs (and may raise) only when the field and
\* its error element both exist.
validatePhone(d) ==
    IF Trim(d.value["phone"]) = <<>>
    THEN [dom |-> validateField(d, "phone", FALSE, PhoneEmptyMessage),
          ok |-> validateFieldResult("phone", FALSE), threw |-> FALSE]
    ELSE IF Present("phone") /\ Present("phoneError") /\ CountryLookupThrows
         THEN [dom |-> d, ok |-> FALSE, threw |-> TRUE]
         ELSE LET v == validatePhoneNumber(d.value["phone"], d.selectedIndex)
              IN  [dom |-> validateField(d, "phone", v, PhoneInvalidMessage),
                   ok |-> validateFieldResult("phone", v), threw |-> FALSE]

-----------------------------------------------------------------------------
(* Form submission *)

\* Faulty variant, kept for comparison: the loop stops at the first field that
\* fails ("isValid && validateField(...)")
RECURSIVE validateTextFieldsShortCircuit(_, _)
validateTextFieldsShortCircuit(d, i) ==
    IF i > Len(TextFields) THEN d
    ELSE IF ~validateTextFieldResult(d, TextFields[i])
         THEN validateTextField(d, TextFields[i])
         ELSE validateTextFieldsShortCircuit(validateTextField(d, TextFields[i]), i + 1)

\* Object.keys(fieldValidators).forEach(...) of the submit listener
RECURSIVE validateTextFields(_, _)
validateTextFields(d, i) ==
    IF i > Len(TextFields) THEN d
    ELSE validateTextFields(validateTextField(d, TextFields[i]), i + 1)

\* Faulty variant, kept for comparison: "isValid = validateField(...)" without "&& isValid": the last field
\* decides
textFieldsValidLastWins(d) ==
    validateTextFieldResult(d, TextFields[Len(TextFields)])

\* isValid after the loop: every validateField call returned true
textFieldsValid(d) ==
    \A f \in TextFieldSet : validateTextFieldResult(d, f)

\* elements.modalOverlay.style.display = 'block'; elements.successModal...:
\* a missing element raises a TypeError at its line.
showModal(d) ==
    IF ~Present("modalOverlay") THEN [dom |-> d, threw |-> TRUE]
    ELSE IF ~Present("successModal")
         THEN [dom |-> [d EXCEPT !.overlay = "block"], threw |-> TRUE]
         ELSE [dom |-> [d EXCEPT !.overlay = "block", !.modal = "block"],
               threw |-> FALSE]

\* HTMLFormElement.reset(): values, the checked radio and the selected option
\* go back to the document's defaults; no change event is fired.
reset(d) ==
    [d EXCEPT !.value = [f \in Fields |-> <<>>],
              !.checked = defaultContact,
              !.selectedIndex = 1]

\* Faulty variant, kept for comparison: the clean-up removes is-invalid only
resetCleanupInvalidOnly(d, a) ==
    [d EXCEPT !.cls = [f \in Fields |-> @[f] \ {"is-invalid"}],
              !.dblock = [f \in Fields |-> IF Present(ErrorId(f)) THEN FALSE ELSE @[f]],
              !.errText = [f \in Fields |->
                              IF a /\ Present(ErrorId(f)) THEN "" ELSE @[f]]]

\* the two querySelectorAll(...).forEach(...) after reset(); the accessible
\* variant also empties every error element's text.
resetCleanup(d, a) ==
    [d EXCEPT !.cls = [f \in Fields |-> @[f] \ {"is-valid", "is-invalid"}],
              !.dblock = [f \in Fields |-> IF Present(ErrorId(f)) THEN FALSE ELSE @[f]],
              !.errText = [f \in Fields |->
                              IF a /\ Present(ErrorId(f)) THEN "" ELSE @[f]]]

SuccessMessage == "Message sent successfully!"
ErrorsMessage == "Form contains errors. Please check the fields and try again."

\* Faulty variant, kept for comparison: the form is reset whether or not it was valid
submitFailureResets(d, a) ==
    [dom |-> reset(d), threw |-> FALSE, message |-> IF a THEN ErrorsMessage ELSE ""]

\* The else branch of the submit listener: nothing but the announcement (and
\* moving the focus to the first invalid field).
submitFailure(d, a) ==
    [dom |-> d, threw |-> FALSE, message |-> IF a THEN ErrorsMessage ELSE ""]

\* The branch taken when isValid: show the modal, then reset the form.
submitSuccess(d, a) ==
    LET m == showModal(d)
    IN  IF m.threw
        THEN [dom |-> m.dom, threw |-> TRUE, message |-> ""]
        ELSE [dom |-> resetCleanup(reset(m.dom), a), threw |-> FALSE,
              message |-> IF a THEN SuccessMessage ELSE ""]

\* The submit listener.  [dom, threw, message]: the DOM it leaves, whether it
\* raised, and what it announced ("" : nothing).
submit(d, a) ==
    LET d1 == validateTextFields(d, 1)
        ok1 == textFieldsValid(d)
        phoneChecked == Present("contactPhone") /\ d.checked = "phone"
    IN  IF phoneChecked /\ ~Present("phone")
        THEN [dom |-> d1, threw |-> TRUE, message |-> ""]
        ELSE LET p == IF phoneChecked THEN validatePhone(d1)
                      ELSE [dom |-> d1, ok |-> TRUE, threw |-> FALSE]
             IN  IF p.threw THEN [dom |-> p.dom, threw |-> TRUE, message |-> ""]
                 ELSE IF ok1 /\ p.ok THEN submitSuccess(p.dom, a)
                 ELSE submitFailure(p.dom, a)

\* Faulty variant, kept for comparison: only the overlay is hidden
closeModalOverlayOnly(d) ==
    [d EXCEPT !.overlay = IF Present("modalOverlay") THEN "none" ELSE @]

\* closeModal()
closeModal(d) ==
    [d EXCEPT !.overlay = IF Present("modalOverlay") THEN "none" ELSE @,
              !.modal = IF Present("successModal") THEN "none" ELSE @]

-----------------------------------------------------------------------------
(* Bounds and the inputs the user can give *)

MaxPendingAnnouncements == 2
MaxEvents == 4

TextValues == { <<>>, <<" ">>, <<"a">> }
EmailValues == { <<>>, <<"a", "@", "b">>, <<"a", "@", "b", ".", "c">> }
PhoneTyped == { <<>>, <<"1", "a">>, <<"1", " ", "2">>, <<"1", "2", "3">> }
PastedTexts == { <<"(", "2", ")">>, <<"3", " ">> }
MaxPhoneLen == 4
DefaultContacts == {"email"}

ValuesOf(f) == IF f = "email" THEN EmailValues ELSE TextValues

\* every string of at most MaxNumberLen characters handed to
\* validatePhoneNumber: a digit, two separators, a letter
MaxNumberLen == 3
NumberChars == {"1", "-", " ", "a"}
NumberStrings == UNION {[1..n -> NumberChars] : n \in 0..MaxNumberLen}

\* every string of at most MaxEmailLen characters an e-mail field can hold
MaxEmailLen == 5
EmailChars == {"a", "@", ".", " "}
EmailStrings == UNION {[1..n -> EmailChars] : n \in 0..MaxEmailLen}

-----------------------------------------------------------------------------
(* Announcements (accessible variant) *)

\* announceToScreenReader(message): "" stands for a handler that announces
\* nothing.  Every call starts a 1000 ms timer that empties the announcer;
\* the timers all have the same delay and so fire in the order they were set.
announceToScreenReader(message) ==
    IF message = "" \/ ~Present("status-announcer")
    THEN UNCHANGED announceVars
    ELSE /\ announceTimers < MaxPendingAnnouncements
         /\ announcer' = message
         /\ announceTimers' = announceTimers + 1

\* the callback of the oldest pending announcer timer
AnnouncerTimeout ==
    /\ announceTimers > 0
    /\ announcer' = ""
    /\ announceTimers' = announceTimers - 1
    /\ UNCHANGED <<formVars, scrollVars, events>>

NoThrow == [base |-> FALSE, acc |-> FALSE]

\* A session is explored up to MaxEvents user events; timer callbacks are
\* bounded by the timers the events start.
UserEvent ==
    /\ events < MaxEvents
    /\ events' = events + 1

-----------------------------------------------------------------------------
(* Events *)

\* The user edits a text field; no listener of the script runs.
Input ==
    \E f \in TextFieldSet : \E v \in ValuesOf(f) :
        /\ UserEvent
        /\ Present(f)
        /\ v # base.value[f]
        /\ base' = [base EXCEPT !.value[f] = v]
        /\ acc' = [acc EXCEPT !.value[f] = v]
        /\ threw' = NoThrow
        /\ UNCHANGED <<absent, defaultContact, announceVars, scrollVars>>

\* The user fills in every text field with valid data: five edits with no
\* listener of the script running in between (none listens to their input).
ValidFilling ==
    [f \in Fields |-> IF f = "email" THEN <<"a", "@", "b", ".", "c">> ELSE <<"a">>]

Fill ==
    /\ UserEvent
    /\ \A f \in TextFieldSet : Present(f)
    /\ \E f \in TextFieldSet : base.value[f] # ValidFilling[f]
    /\ base' = [base EXCEPT !.value = [f \in Fields |->
                    IF f = "phone" THEN @[f] ELSE ValidFilling[f]]]
    /\ acc' = [acc EXCEPT !.value = [f \in Fields |->
                    IF f = "phone" THEN @[f] ELSE ValidFilling[f]]]
    /\ threw' = NoThrow
    /\ UNCHANGED <<absent, defaultContact, announceVars, scrollVars>>

\* The user edits the phone field to hold text t; the input listener removes
\* what is neither a digit nor whitespace.
PhoneInput ==
    \E t \in PhoneTyped :
        /\ UserEvent
        /\ Present("phone")
        /\ cleaned(t) # base.value["phone"]
        /\ base' = [base EXCEPT !.value["phone"] = cleaned(t)]
        /\ acc' = [acc EXCEPT !.value["phone"] = cleaned(t)]
        /\ threw' = NoThrow
        /\ UNCHANGED <<absent, defaultContact, announceVars, scrollVars>>

\* currentValue.substring(0, start) + cleaned + currentValue.substring(end)
pasteInto(currentValue, start, end, pastedText) ==
    SubSeq(currentValue, 1, start) \o cleaned(pastedText)
        \o SubSeq(currentValue, end + 1, Len(currentValue))

\* paste listener of the phone field: the default paste is prevented, the
\* filtered text replaces the selection start..end, and the input event it
\* dispatches runs the input listener on the result.
PhonePaste ==
    \E t \in PastedTexts :
      \E start \in 0..Len(base.value["phone"]) :
        \E end \in start..Len(base.value["phone"]) :
          LET v == cleaned(pasteInto(base.value["phone"], start, end, t))
          IN  /\ UserEvent
              /\ Present("phone")
              /\ Len(v) <= MaxPhoneLen
              /\ base' = [base EXCEPT !.value["phone"] = v]
              /\ acc' = [acc EXCEPT !.value["phone"] =
                            cleaned(pasteInto(acc.value["phone"], start, end, t))]
              /\ threw' = NoThrow
              /\ UNCHANGED <<absent, defaultContact, announceVars, scrollVars>>

\* contactPhone 'change' listener
contactPhoneChange(d) ==
    IF Present("phone-group") /\ Present("phone")
    THEN [d EXCEPT !.groupDisplay = "block", !.required = TRUE]
    ELSE d

\* Faulty variant, kept for comparison: the listener does not call
\* clearValidation
contactEmailChangeNoClear(d, a) ==
    IF Present("phone-group") /\ Present("phone")
    THEN [d EXCEPT !.groupDisplay = "none", !.required = FALSE]
    ELSE d

\* contactEmail 'change' listener
contactEmailChange(d, a) ==
    IF Present("phone-group") /\ Present("phone")
    THEN clearValidation([d EXCEPT !.groupDisplay = "none", !.required = FALSE],
                         a, "phone")
    ELSE d

\* The user picks the phone radio: it becomes the checked one, then its
\* change listener runs.
ContactPhoneChange ==
    /\ UserEvent
    /\ Present("contactPhone")
    /\ base.checked # "phone"
    /\ base' = contactPhoneChange([base EXCEPT !.checked = "phone"])
    /\ acc' = contactPhoneChange([acc EXCEPT !.checked = "phone"])
    /\ threw' = NoThrow
    /\ announceToScreenReader(
           IF Present("phone-group") /\ Present("phone")
           THEN "Phone number field is now required" ELSE "")
    /\ UNCHANGED <<absent, defaultContact, scrollVars>>

ContactEmailChange ==
    /\ UserEvent
    /\ Present("contactEmail")
    /\ base.checked # "email"
    /\ base' = contactEmailChange([base EXCEPT !.checked = "email"], FALSE)
    /\ acc' = contactEmailChange([acc EXCEPT !.checked = "email"], TRUE)
    /\ threw' = NoThrow
    /\ announceToScreenReader(
           IF Present("phone-group") /\ Present("phone")
           THEN "Phone number field is no longer required" ELSE "")
    /\ UNCHANGED <<absent, defaultContact, scrollVars>>

\* countryCode 'change' listener; d already holds the new selectedIndex
countryCodeChange(d, a) ==
    LET placeholder == Options[d.selectedIndex].placeholder
    IN  IF placeholder # ""
        THEN clearValidation([d EXCEPT !.placeholder = placeholder], a, "phone")
        ELSE d

\* `Country code changed to ${countryName}`
countryMessage(i) ==
    CASE Options[i].name = "CH" -> "Country code changed to CH"
      [] Options[i].name = "US" -> "Country code changed to US"
      [] OTHER -> "Country code changed to XX"

\* The user selects another country; the listener exists only when the select
\* and the phone input both do.
CountryCodeChange ==
    \E i \in 1..Len(Options) :
        /\ UserEvent
        /\ Present("countryCode")
        /\ i # base.selectedIndex
        /\ LET b == [base EXCEPT !.selectedIndex = i]
               c == [acc EXCEPT !.selectedIndex = i]
           IN  IF Present("phone")
               THEN /\ base' = countryCodeChange(b, FALSE)
                    /\ acc' = countryCodeChange(c, TRUE)
                    /\ announceToScreenReader(
                           IF Options[i].placeholder # "" THEN countryMessage(i) ELSE "")
               ELSE /\ base' = b
                    /\ acc' = c
                    /\ UNCHANGED announceVars
        /\ threw' = NoThrow
        /\ UNCHANGED <<absent, defaultContact, scrollVars>>

\* blur listener of text field f
BlurField(f) ==
    /\ UserEvent
    /\ Present(f)
    /\ base' = validateTextField(base, f)
    /\ acc' = validateTextField(acc, f)
    /\ threw' = NoThrow
    /\ UNCHANGED <<absent, defaultContact, announceVars, scrollVars>>

Blur ==
    \E f \in TextFieldSet : BlurField(f)

\* blur listener of the phone field: [dom, threw]
phoneBlur(d) ==
    IF Present("contactPhone") /\ d.checked = "phone"
    THEN LET p == validatePhone(d) IN [dom |-> p.dom, threw |-> p.threw]
    ELSE [dom |-> d, threw |-> FALSE]

PhoneBlur ==
    /\ UserEvent
    /\ Present("phone")
    /\ LET b == phoneBlur(base)
           c == phoneBlur(acc)
       IN  /\ base' = b.dom
           /\ acc' = c.dom
           /\ threw' = [base |-> b.threw, acc |-> c.threw]
    /\ UNCHANGED <<absent, defaultContact, announceVars, scrollVars>>

\* submit listener of the form
Submit ==
    /\ UserEvent
    /\ Present("contactForm")
    /\ LET b == submit(base, FALSE)
           c == submit(acc, TRUE)
       IN  /\ base' = b.dom
           /\ acc' = c.dom
           /\ threw' = [base |-> b.threw, acc |-> c.threw]
           /\ announceToScreenReader(c.message)
    /\ UNCHANGED <<absent, defaultContact, scrollVars>>

\* click listener of the overlay
OverlayClick ==
    /\ UserEvent
    /\ Present("modalOverlay")
    /\ base' = closeModal(base)
    /\ acc' = closeModal(acc)
    /\ threw' = NoThrow
    /\ UNCHANGED <<absent, defaultContact, announceVars, scrollVars>>

\* keydown listener of the document, for the Escape key; only the accessible
\* variant has one.
EscapeKey ==
    /\ UserEvent
    /\ base' = base
    /\ acc' = IF Present("successModal") /\ acc.modal = "block"
              THEN closeModal(acc)
              ELSE acc
    /\ threw' = NoThrow
    /\ UNCHANGED <<absent, defaultContact, announceVars, scrollVars>>

-----------------------------------------------------------------------------
(* Navigation highlight on scroll *)

MaxScrollTimers == 2

\* section[id] elements in document order, with their offsetTop
Sections ==
    << [id |-> "about", offsetTop |-> 300],
       [id |-> "skills", offsetTop |-> 600],
       [id |-> "projects", offsetTop |-> 900],
       [id |-> "contact", offsetTop |-> 1200] >>

\* href of every .nav-link, in document order: the navbar's links, the
\* offcanvas panel's copies of them, and a link to the top of the page
\* (href="#", the kind of anchor the click listener of line 741 sets apart)
NavLinks ==
    << "#about", "#skills", "#projects", "#contact",
       "#about", "#skills", "#projects", "#contact", "#" >>

ScrollPositions == {0, 100, 250, 400, 550, 700, 850, 1000, 1150, 1300}

\* `#${current}`
HashOf(current) ==
    CASE current = "" -> "#"
      [] current = "about" -> "#about"
      [] current = "skills" -> "#skills"
      [] current = "projects" -> "#projects"
      [] current = "contact" -> "#contact"

\* sections.forEach(section => { if (scrollY >= sectionTop - 200) current = id })
RECURSIVE currentSection(_, _, _)
currentSection(y, i, current) ==
    IF i > Len(Sections) THEN current
    ELSE currentSection(y, i + 1,
             IF y >= Sections[i].offsetTop - 200 THEN Sections[i].id ELSE current)

\* document.querySelectorAll('.nav-link').forEach(...): the links' state after
\* the update; a: the accessible variant, which also maintains aria-current.
updateNavLinks(nav, y, a) ==
    LET current == currentSection(y, 1, "")
        hit == {i \in 1..Len(NavLinks) : NavLinks[i] = HashOf(current)}
    IN  [active |-> hit,
         ariaCurrent |-> IF a THEN hit ELSE nav.ariaCurrent]

\* setTimeout returns an id no pending timer has
FreshTimerId(pending, held) ==
    CHOOSE id \in 1..(Len(pending) + 2) :
        /\ id # held
        /\ \A i \in 1..Len(pending) : pending[i] # id

\* Faulty variant, kept for comparison: the scroll listener does not clear the pending timer
clearTimeoutNoop(pending, id) == pending

\* clearTimeout(id): a no-op for an id that is not pending
clearTimeout(pending, id) ==
    LET Other(x) == x # id IN SelectSeq(pending, Other)

\* The window scrolls to y.  Baseline: the listener updates the links at once.
\* Accessible: the listener clears the timer it holds and starts a new one.
Scroll ==
    \E y \in ScrollPositions :
        /\ y # scrollY
        /\ scrollY' = y
        /\ navBase' = updateNavLinks(navBase, y, FALSE)
        /\ LET cleared == clearTimeout(scrollTimers, scrollTimeout)
               id == FreshTimerId(cleared, scrollTimeout)
           IN  /\ Len(cleared) < MaxScrollTimers
               /\ scrollTimers' = Append(cleared, id)
               /\ scrollTimeout' = id
        /\ scrolled' = TRUE
        /\ updatesSinceScroll' = 0
        /\ UNCHANGED <<navAcc, formVars, announceVars, events>>

\* The oldest pending scroll timer fires: the debounced update.
ScrollTimeout ==
    /\ scrollTimers # <<>>
    /\ scrollTimers' = Tail(scrollTimers)
    /\ navAcc' = updateNavLinks(navAcc, scrollY, TRUE)
    /\ updatesSinceScroll' = updatesSinceScroll + 1
    /\ UNCHANGED <<scrollTimeout, scrollY, navBase, scrolled, formVars,
                   announceVars, events>>

-----------------------------------------------------------------------------
(* Specifications *)

InitScroll ==
    /\ scrollTimers = <<>>
    /\ scrollTimeout = 0
    /\ scrollY = 0
    /\ navBase = [active |-> {}, ariaCurrent |-> {}]
    /\ navAcc = [active |-> {}, ariaCurrent |-> {}]
    /\ scrolled = FALSE
    /\ updatesSinceScroll = 0

\* The page as authored: every element the script looks up exists.
Init ==
    /\ absent = {}
    /\ defaultContact \in DefaultContacts
    /\ base = InitDom(defaultContact)
    /\ acc = InitDom(defaultContact)
    /\ threw = NoThrow
    /\ announcer = ""
    /\ announceTimers = 0
    /\ events = 0
    /\ InitScroll

Next ==
    \/ Input
    \/ Fill
    \/ PhoneInput
    \/ ContactPhoneChange
    \/ ContactEmailChange
    \/ CountryCodeChange
    \/ Blur
    \/ PhoneBlur
    \/ Submit
    \/ OverlayClick
    \/ AnnouncerTimeout

Spec == Init /\ [][Next]_vars

\* The same events, and pasting into the phone field.
NextPaste ==
    \/ Next
    \/ PhonePaste

SpecPaste == Init /\ [][NextPaste]_vars

\* The same events, and pressing Escape.
NextModal ==
    \/ Next
    \/ EscapeKey

SpecModal == Init /\ [][NextModal]_vars

\* Scrolling alone: no scroll listener reads or writes the form's state.
NextScroll ==
    \/ Scroll
    \/ ScrollTimeout

SpecScroll == Init /\ [][NextScroll]_vars

\* Documents that lack one of the elements the script looks up.
Absentable ==
    {"phone", "countryCode", "phoneError", "modalOverlay", "successModal"}
        \cup {ErrorId(f) : f \in TextFieldSet}

InitPartial ==
    /\ absent \in {{}} \cup {{e} : e \in Absentable}
    /\ defaultContact \in DefaultContacts
    /\ base = InitDom(defaultContact)
    /\ acc = InitDom(defaultContact)
    /\ threw = NoThrow
    /\ announcer = ""
    /\ announceTimers = 0
    /\ events = 0
    /\ InitScroll

SpecPartial == InitPartial /\ [][Next]_vars

\* Typing and pasting into the phone field alone.
NextPhone ==
    \/ PhoneInput
    \/ PhonePaste

SpecPhone == Init /\ [][NextPhone]_vars

\* The phone field holding any string while the phone method is the checked
\* one: blur of the phone field under each country.
InitValidate ==
    /\ absent = {}
    /\ defaultContact \in DefaultContacts
    /\ \E phoneNumber \in NumberStrings :
          base = contactPhoneChange(
                     [InitDom(defaultContact) EXCEPT !.checked = "phone",
                                                     !.value["phone"] = phoneNumber])
    /\ acc = base
    /\ threw = NoThrow
    /\ announcer = ""
    /\ announceTimers = 0
    /\ events = 0
    /\ InitScroll

NextValidate ==
    \/ PhoneBlur
    \/ CountryCodeChange
    \/ AnnouncerTimeout

SpecValidate == InitValidate /\ [][NextValidate]_vars

\* The e-mail field holding any string, on a form whose other text fields are
\* filled in (the first name possibly not): blur of the e-mail field, submit.
\* The page has no #status-announcer, so that nothing is announced.
InitEmail ==
    /\ absent = {"status-announcer"}
    /\ defaultContact \in DefaultContacts
    /\ \E email \in EmailStrings : \E firstName \in {<<>>, <<"a">>} :
          base = [InitDom(defaultContact) EXCEPT !.value =
                     [ValidFilling EXCEPT !["email"] = email,
                                          !["firstName"] = firstName,
                                          !["phone"] = <<>>]]
    /\ acc = base
    /\ threw = NoThrow
    /\ announcer = ""
    /\ announceTimers = 0
    /\ events = 0
    /\ InitScroll

EmailBlur == BlurField("email")

NextEmail ==
    \/ EmailBlur
    \/ Submit

SpecEmail == InitEmail /\ [][NextEmail]_vars

-----------------------------------------------------------------------------
(* Properties *)

PlainFields == {"firstName", "lastName", "messageSubject", "message"}
Variants == {base, acc}
Hidden(display) == display # "block"

\* what the two variants are compared on
Observable(d) ==
    [ value |-> d.value, cls |-> d.cls, dblock |-> d.dblock,
      required |-> d.required, groupDisplay |-> d.groupDisplay,
      overlay |-> d.overlay, modal |-> d.modal ]

\* the data a failed submit must leave alone
FormData(d) ==
    [ value |-> d.value, checked |-> d.checked, selectedIndex |-> d.selectedIndex,
      required |-> d.required, groupDisplay |-> d.groupDisplay,
      overlay |-> d.overlay, modal |-> d.modal ]

\* every text field satisfies its validator
TextFieldsPass(d) == \A f \in TextFieldSet : validator(f, d.value[f])

\* the phone value is non-empty and matches the selected option's data-pattern
PhonePasses(d) ==
    /\ Trim(d.value["phone"]) # <<>>
    /\ Options[d.selectedIndex].pattern.has
    /\ RegExpTest(Options[d.selectedIndex].pattern, cleanNumber(d.value["phone"]))

\* C1: a submit in which firstName, lastName, messageSubject or message is
\* empty or whitespace-only marks that field is-invalid and does not make the
\* success modal or the overlay visible.
C1_EmptyFieldBlocksSubmit ==
    [][Submit =>
        \A f \in PlainFields :
            Trim(base.value[f]) = <<>> =>
                /\ "is-invalid" \in base'.cls[f]
                /\ "is-invalid" \in acc'.cls[f]
                /\ Hidden(base.modal) => Hidden(base'.modal)
                /\ Hidden(base.overlay) => Hidden(base'.overlay)
                /\ Hidden(acc.modal) => Hidden(acc'.modal)
                /\ Hidden(acc.overlay) => Hidden(acc'.overlay)]_vars

\* C1 witness: a submit has run on a form whose first name is whitespace-only
\* and whose other fields are valid; the modal stayed hidden.
C1_Witness ==
    /\ base.value["firstName"] = <<" ">>
    /\ "is-invalid" \in base.cls["firstName"]
    /\ \A f \in TextFieldSet \ {"firstName"} : "is-valid" \in base.cls[f]
    /\ Hidden(base.modal) /\ Hidden(base.overlay)
    /\ announcer = ErrorsMessage

\* the phone value as typed is non-empty and matches the selected option's
\* data-pattern
RawPhoneMatches(d) ==
    /\ d.value["phone"] # <<>>
    /\ Options[d.selectedIndex].pattern.has
    /\ RegExpTest(Options[d.selectedIndex].pattern, d.value["phone"])

\* C2 as stated: the modal and the overlay go from hidden to visible only in a
\* submit step at which all five text fields satisfy their validators and, if
\* the phone method is checked, the phone value is non-empty and matches the
\* selected country's pattern.
C2_AsStated ==
    [][ ( \/ Hidden(base.modal) /\ ~Hidden(base'.modal)
          \/ Hidden(base.overlay) /\ ~Hidden(base'.overlay)
          \/ Hidden(acc.modal) /\ ~Hidden(acc'.modal)
          \/ Hidden(acc.overlay) /\ ~Hidden(acc'.overlay) )
        => ( /\ Submit
             /\ TextFieldsPass(base)
             /\ base.checked = "phone" => RawPhoneMatches(base) ) ]_vars

\* C2 amended: the modal and the overlay go from hidden to visible only in a
\* submit step at which all five text fields satisfy their validators and, if
\* the phone method is checked, the phone value is not blank and, with its
\* whitespace, hyphens, parentheses and dots removed, matches the selected
\* country's pattern.
C2_ModalOnlyOnValidSubmit ==
    [][ /\ ( \/ Hidden(base.modal) /\ ~Hidden(base'.modal)
             \/ Hidden(base.overlay) /\ ~Hidden(base'.overlay) )
            => ( /\ Submit
                 /\ TextFieldsPass(base)
                 /\ base.checked = "phone" => PhonePasses(base) )
        /\ ( \/ Hidden(acc.modal) /\ ~Hidden(acc'.modal)
             \/ Hidden(acc.overlay) /\ ~Hidden(acc'.overlay) )
            => ( /\ Submit
                 /\ TextFieldsPass(acc)
                 /\ acc.checked = "phone" => PhonePasses(acc) ) ]_vars

\* C2 witness: the modal is showing after a submit made with the phone method
\* (the phone field is still flagged required).
C2_Witness ==
    /\ base.modal = "block" /\ base.overlay = "block"
    /\ acc.modal = "block" /\ acc.overlay = "block"
    /\ base.required
    /\ announcer = SuccessMessage

\* C3: in every reachable state phoneInput.required is true and the phone group
\* is displayed exactly when the phone radio is the checked contact method.
C3_RequiredIffPhoneChecked ==
    \A d \in Variants :
        /\ d.required <=> d.checked = "phone"
        /\ d.groupDisplay = "block" <=> d.checked = "phone"

\* the marking C4 asks of a field that failed validation
MarkedInvalid(d, f) ==
    /\ "is-invalid" \in d.cls[f]
    /\ "is-valid" \notin d.cls[f]
    /\ d.dblock[f]
    /\ d.errText[f] # ""

\* C4: after a blur or a submit in which a field fails its validator, the field
\* has is-invalid and not is-valid, and its error element has d-block and a
\* non-empty message (the phone field is validated when its method is checked).
C4_FailureIsSurfaced ==
    [][ /\ \A f \in TextFieldSet :
              ~validator(f, base.value[f]) /\ BlurField(f)
                  => MarkedInvalid(base', f) /\ MarkedInvalid(acc', f)
        /\ base.checked = "phone" /\ ~PhonePasses(base) /\ PhoneBlur
              => MarkedInvalid(base', "phone") /\ MarkedInvalid(acc', "phone")
        /\ Submit =>
              /\ \A f \in TextFieldSet :
                    ~validator(f, base.value[f])
                        => MarkedInvalid(base', f) /\ MarkedInvalid(acc', f)
              /\ base.checked = "phone" /\ ~PhonePasses(base)
                    => MarkedInvalid(base', "phone") /\ MarkedInvalid(acc', "phone") ]_vars

\* C4 witness: a field that was marked valid has failed a later validation.
C4_Witness ==
    /\ MarkedInvalid(base, "email") /\ MarkedInvalid(acc, "email")
    /\ base.value["email"] = <<"a", "@", "b">>
    /\ base.errText["email"] = errorMessage("email")
    /\ "is-valid" \in base.cls["firstName"]

\* C5: whatever elements are missing, no handler raises an exception.
C5_NoHandlerThrows == threw = NoThrow

\* the submit at hand fails validation
SubmitFails(d) ==
    ~(TextFieldsPass(d) /\ (d.checked = "phone" => PhonePasses(d)))

\* C6: a submit that fails validation leaves every field value, the checked
\* contact method, the selected country, phoneInput.required, the phone group's
\* visibility and the modal's and overlay's visibility unchanged.
C6_FailedSubmitKeepsData ==
    [][Submit /\ SubmitFails(base)
        => FormData(base') = FormData(base) /\ FormData(acc') = FormData(acc)]_vars

\* C6 witness: a failed submit has marked a partly filled form, whose data
\* (values, phone method, second country) are still there.
C6_Witness ==
    /\ base.value["lastName"] = <<"a">>
    /\ "is-valid" \in base.cls["lastName"]
    /\ "is-invalid" \in base.cls["firstName"]
    /\ base.checked = "phone"
    /\ "is-invalid" \in base.cls["phone"]
    /\ announcer = ErrorsMessage

C8_OwnTimerClears ==
    [][AnnouncerTimeout /\ announcer # "" => announceTimers = 1]_vars

\* C9: at most one scroll timer is pending; a scroll leaves exactly one pending
\* (its own); and once no timer is pending, exactly one highlight update has
\* happened since the last scroll event.
C9_ScrollDebounced ==
    /\ Len(scrollTimers) <= 1
    /\ scrollTimers # <<>> => scrollTimers = <<scrollTimeout>> /\ updatesSinceScroll = 0
    /\ scrollTimers = <<>> /\ scrolled => updatesSinceScroll = 1
    /\ scrollTimers = <<>> /\ scrolled
           => navAcc.active = updateNavLinks(navAcc, scrollY, TRUE).active

\* C9 witness: the scroll timer has fired after a burst that ended at 700, and
\* the links of the section reached are highlighted.
C9_Witness ==
    /\ scrolled /\ scrollTimers = <<>>
    /\ scrollY = 700
    /\ scrollTimeout = 2
    /\ updatesSinceScroll = 1
    /\ navAcc.active = {3, 7}

\* C10: a submit at which all five text fields pass and the phone method is
\* unchecked or the phone value is valid shows overlay and modal, resets the
\* values and leaves no is-valid, no is-invalid and no d-block in the form.
C10_ValidSubmitShowsAndResets ==
    [][Submit /\ ~SubmitFails(base) =>
        \A d \in {base', acc'} :
            /\ d.overlay = "block" /\ d.modal = "block"
            /\ \A f \in Fields :
                  /\ d.value[f] = <<>>
                  /\ d.cls[f] = {}
                  /\ ~d.dblock[f]]_vars

\* C10 witness: the modal is showing over a reset form after a submit made
\* with the e-mail method while the phone field held an invalid value.
C10_Witness ==
    /\ base.modal = "block" /\ acc.modal = "block"
    /\ \A f \in Fields : base.value[f] = <<>> /\ base.cls[f] = {}
    /\ ~base.required
    /\ announcer = SuccessMessage
    /\ events = 3

\* C11: a failing submit validates every field: each text field that fails its
\* validator is is-invalid afterwards and each that passes is is-valid, and so
\* is the phone field when the phone method is checked, whatever the position
\* of the field and however many fields before it failed.
C11_SubmitValidatesAll ==
    [][Submit /\ SubmitFails(base) =>
        \A d \in {"base", "acc"} :
            LET old == IF d = "base" THEN base ELSE acc
                new == IF d = "base" THEN base' ELSE acc'
            IN  /\ \A f \in TextFieldSet :
                      IF validator(f, old.value[f])
                      THEN new.cls[f] = {"is-valid"}
                      ELSE new.cls[f] = {"is-invalid"}
                /\ old.checked = "phone" =>
                      IF PhonePasses(old)
                      THEN new.cls["phone"] = {"is-valid"}
                      ELSE new.cls["phone"] = {"is-invalid"}]_vars

\* C11 witness: a failed submit has marked the first and the last field
\* invalid and a field between them valid.
C11_Witness ==
    /\ base.cls["firstName"] = {"is-invalid"}
    /\ base.cls["lastName"] = {"is-valid"}
    /\ base.cls["message"] = {"is-invalid"}
    /\ acc.cls["message"] = {"is-invalid"}
    /\ base.checked = "email"
    /\ announcer = ErrorsMessage

\* local@domain.tld: no whitespace, exactly one "@" with something before it,
\* and a dot inside the part after the "@" (neither its first nor its last
\* character)
WellFormedEmail(s) ==
    /\ \A i \in 1..Len(s) : ~IsSpace(s[i])
    /\ Cardinality({i \in 1..Len(s) : s[i] = "@"}) = 1
    /\ LET at == CHOOSE i \in 1..Len(s) : s[i] = "@"
       IN  /\ at > 1
           /\ \E j \in (at + 2)..(Len(s) - 1) : s[j] = "."

\* C12: once the e-mail field has been validated, by its blur listener or by a
\* submit alike, an empty or whitespace-only e-mail stands rejected with
\* "Please provide your email address.", a non-empty one that is not of the form
\* local@domain.tld stands rejected with "Please provide a valid email
\* address.", and any other is accepted: it is marked is-valid, or the submit
\* it completed has succeeded and reset the form.
C12_EmailVerdict ==
    events > 0 =>
        \A d \in Variants :
            LET email == d.value["email"]
                JustReset == /\ d.modal = "block"
                             /\ email = <<>>
                             /\ d.cls["email"] = {}
            IN  IF Trim(email) = <<>>
                THEN \/ /\ d.cls["email"] = {"is-invalid"}
                        /\ d.dblock["email"]
                        /\ d.errText["email"] = "Please provide your email address."
                     \/ JustReset
                ELSE IF ~WellFormedEmail(email)
                THEN /\ d.cls["email"] = {"is-invalid"}
                     /\ d.dblock["email"]
                     /\ d.errText["email"] = "Please provide a valid email address."
                ELSE d.cls["email"] = {"is-valid"} /\ ~d.dblock["email"]

\* C12 witness: an e-mail whose domain starts with its only dot has been
\* rejected as malformed.
C12_Witness ==
    /\ base.value["email"] = <<"a", "@", ".", "a">>
    /\ base.cls["email"] = {"is-invalid"}
    /\ acc.errText["email"] = "Please provide a valid email address."
    /\ events = 1

\* the digit and whitespace characters of a text, in their order
DigitsAndSpacesOf(text) ==
    LET Allowed(c) == c \in {"1", "2", "3", " "} IN SelectSeq(text, Allowed)

\* C13: after every input and paste event the phone field holds digits and
\* whitespace only, and a paste puts exactly the digit and whitespace
\* characters of the pasted text in the place of the selection.
C13_PhoneDigitsAndSpaces ==
    [][ /\ \A d \in {base', acc'} :
              DigitsAndSpacesOf(d.value["phone"]) = d.value["phone"]
        /\ PhonePaste =>
              \E t \in PastedTexts :
                \E start \in 0..Len(base.value["phone"]) :
                  \E end \in start..Len(base.value["phone"]) :
                    \A d \in {"base", "acc"} :
                      LET old == IF d = "base" THEN base ELSE acc
                          new == IF d = "base" THEN base' ELSE acc'
                          v == old.value["phone"]
                      IN  new.value["phone"] =
                              SubSeq(v, 1, start) \o DigitsAndSpacesOf(t)
                                  \o SubSeq(v, end + 1, Len(v)) ]_vars

\* C13 witness: "(2)" has been pasted between the first two digits of "123".
C13_Witness ==
    /\ base.value["phone"] = <<"1", "2", "2", "3">>
    /\ acc.value["phone"] = <<"1", "2", "2", "3">>
    /\ events = 2

Separators == {" ", "-", "(", ")", "."}

\* a phone value without its whitespace, hyphens, parentheses and dots
StripSeparators(s) ==
    LET Kept(c) == c \notin Separators IN SelectSeq(s, Kept)

\* s with the character c put in after its first k characters
InsertAt(s, k, c) == SubSeq(s, 1, k) \o <<c>> \o SubSeq(s, k + 1, Len(s))

\* s matches the data-pattern of option i: digits only, as many as it asks for
MatchesPatternOf(i, s) ==
    /\ Options[i].pattern.has
    /\ \A k \in 1..Len(s) : s[k] \in {"1", "2", "3"}
    /\ Len(s) \in Options[i].pattern.lo..Options[i].pattern.hi

\* C14: validatePhoneNumber gives one result for values that differ only in
\* separators, is true exactly when the separator-stripped value matches the
\* data-pattern of the option selected when it is called, and is false for
\* every value when that option has no data-pattern; the phone blur listener
\* marks a non-blank value by it.
C14_PhoneValidity ==
    [][PhoneBlur =>
        LET v == base.value["phone"]
            i == base.selectedIndex
            r == validatePhoneNumber(v, i)
        IN  /\ validatePhoneNumber(StripSeparators(v), i) = r
            /\ \A c \in Separators : \A k \in 0..Len(v) :
                  validatePhoneNumber(InsertAt(v, k, c), i) = r
            /\ r <=> MatchesPatternOf(i, StripSeparators(v))
            /\ ~Options[i].pattern.has => ~r
            /\ Trim(v) # <<>> =>
                  /\ "is-valid" \in base'.cls["phone"] <=> r
                  /\ "is-valid" \in acc'.cls["phone"] <=> r ]_vars

\* C14 witness: a two-digit number written with a hyphen, rejected under the
\* three-digit country, has been accepted after the two-digit country was
\* selected again.
C14_Witness ==
    /\ base.value["phone"] = <<"1", "-", "1">>
    /\ base.selectedIndex = 1
    /\ base.cls["phone"] = {"is-valid"}
    /\ acc.cls["phone"] = {"is-valid"}
    /\ base.errText["phone"] = PhoneInvalidMessage

\* C15: a click on the overlay hides overlay and modal; so does, in the
\* accessible variant, an Escape key-press while the modal is displayed; an
\* Escape key-press while it is not changes nothing; and overlay and modal are
\* always both visible or both hidden.
C15_CloseModalHidesBoth ==
    [][ /\ OverlayClick =>
              \A d \in {base', acc'} : Hidden(d.overlay) /\ Hidden(d.modal)
        /\ EscapeKey /\ acc.modal = "block" =>
              Hidden(acc'.overlay) /\ Hidden(acc'.modal)
        /\ EscapeKey /\ acc.modal # "block" => acc' = acc /\ base' = base
        /\ \A d \in {base', acc'} : d.overlay = "block" <=> d.modal = "block" ]_vars

\* C15 witness: Escape has closed the accessible variant's modal (the baseline
\* variant, which has no such listener, still shows its own).
C15_Witness ==
    /\ acc.modal = "none" /\ acc.overlay = "none"
    /\ base.modal = "block" /\ base.overlay = "block"

\* the sections that satisfy scrollY >= offsetTop - 200
SectionsReached(y) == {i \in 1..Len(Sections) : y >= Sections[i].offsetTop - 200}

\* the links whose href is "#" followed by the id of the last section reached;
\* none when no section is reached
LinksOfCurrentSection(y) ==
    IF SectionsReached(y) = {} THEN {}
    ELSE LET last == CHOOSE i \in SectionsReached(y) :
                         \A j \in SectionsReached(y) : j <= i
         IN  {k \in 1..Len(NavLinks) : NavLinks[k] = HashOf(Sections[last].id)}

\* C16: after each highlight update the active links are exactly the links of
\* the last section reached, none when no section is reached, and the
\* accessible variant has aria-current on exactly the active links.
C16_ActiveLinksAreCurrentSection ==
    /\ scrolled => navBase.active = LinksOfCurrentSection(scrollY)
    /\ scrolled /\ scrollTimers = <<>> =>
          /\ navAcc.active = LinksOfCurrentSection(scrollY)
          /\ navAcc.ariaCurrent = navAcc.active

\* C17: no validated field has both is-valid and is-invalid, and a field's
\* error element has d-block exactly when the field has is-invalid.
C17_MarkingConsistent ==
    \A d \in Variants : \A f \in Fields :
        /\ ~({"is-valid", "is-invalid"} \subseteq d.cls[f])
        /\ d.dblock[f] <=> "is-invalid" \in d.cls[f]

\* C17 witness: a valid phone number, an invalid e-mail whose error is shown,
\* and a field that has not been validated yet.
C17_Witness ==
    /\ base.cls["phone"] = {"is-valid"} /\ ~base.dblock["phone"]
    /\ base.cls["email"] = {"is-invalid"} /\ base.dblock["email"]
    /\ acc.cls["email"] = {"is-invalid"} /\ acc.dblock["email"]
    /\ base.cls["firstName"] = {}

\* the phone field carries no validation marking
PhoneUnmarked(d) ==
    /\ d.cls["phone"] = {}
    /\ ~d.dblock["phone"]

\* C18: whenever the e-mail contact method is the checked one, the phone field
\* has neither is-invalid nor is-valid and its error element is not displayed;
\* a blur of the phone field in such a state changes nothing.
C18_EmailMethodPhoneUnmarked ==
    [][ /\ \A d \in {base', acc'} : d.checked = "email" => PhoneUnmarked(d)
        /\ PhoneBlur /\ base.checked = "email" => base' = base /\ acc' = acc ]_vars

\* C18 witness: the e-mail method is checked again after the phone field had
\* been marked invalid (the baseline variant still holds the error's text).
C18_Witness ==
    /\ base.checked = "email" /\ acc.checked = "email"
    /\ PhoneUnmarked(base) /\ PhoneUnmarked(acc)
    /\ base.errText["phone"] = PhoneInvalidMessage
    /\ base.value["phone"] # <<>>

\* C19: after every country-code change, whatever attributes the newly
\* selected option carries, the phone field has neither is-valid nor
\* is-invalid and its error element is hidden.
C19_CountryChangeClearsVerdict ==
    [][CountryCodeChange => PhoneUnmarked(base') /\ PhoneUnmarked(acc')]_vars

=============================================================================
